---- MODULE Spec2Model ----
(***************************************************************************)
(* Scene interaction core of the 3D portfolio: the name classifier, the    *)
(* per-frame raycaster, the hover state machine with its delayed unhover,  *)
(* the tween bookkeeping of the hover animations and the click dispatcher. *)
(*                                                                         *)
(* Units.  Scales are percentages (a scale of 1.0 is 100, so HOVER_SCALE   *)
(* 1.08 is 108).  Positions are tenths of a world unit (a slide of 100 is  *)
(* 1000, the pCube offset -3.3 is -33).  Normalised pointer coordinates    *)
(* are hundredths ([-1,1] is -100..100).                                   *)
(***************************************************************************)
EXTENDS Integers, Sequences, FiniteSets, TLC

VARIABLES
    remountFrames,      \* 0 in the first mount of the page; after a remount, 1 + the frames run since
    gl,                 \* the renderer's configuration (shadow map, colour space, tone mapping)
    contextLost,        \* RendererConfig state contextLost
    sceneMounted,       \* SceneContent (and with it both interaction hooks) is mounted
    resourcesReady,     \* SceneContent state: models loaded and settled
    setupTimer,         \* the 100 ms timer of the registry setup effect is pending
    isLoaderActive,     \* PortfolioScene showLoader
    isDialogOpen,       \* prop of PortfolioScene: some modal is open
    interactiveMeshes,  \* SceneContent state: the interactive registry (sequence of nodes)
    metadata,           \* mesh.userData.metadata per node, or NoMeta
    position,           \* mesh.position per node
    scale,              \* mesh.scale per node
    posTween,           \* remaining keyframes of the live tween on mesh.position
    scaleTween,         \* remaining keyframes of the live tween on mesh.scale
    activeTweens,       \* how many tweens gsap has live on each channel of each node
    accent,             \* the accent colour is the colour target of the node's material
    pointer,            \* useSceneRaycaster pointer ref (normalised coordinates)
    lastEnabledState,   \* useSceneRaycaster lastEnabledStateRef
    requiresMouseMove,  \* useSceneRaycaster requiresMouseMoveRef
    intersects,         \* useSceneRaycaster React state
    intersectsRef,      \* useObjectInteractions intersectsRef
    hoveredMeshRef,     \* useObjectInteractions hoveredMeshRef (node or Null)
    unhoverTimeout,     \* useObjectInteractions unhoverTimeoutRef: Null or the pending timer
    cursor,             \* document.body.style.cursor
    last,               \* history: the most recent transition started on each node
    movedSinceEnable,   \* history: a pointer-move was handled since interaction was last enabled
    timerSurvivedRegain, \* history: the hit came back while the unhover timer stayed pending
    out,                \* history: what the step just taken did
    pointerRow,         \* input: the canvas row (clientY) the pointer travels along
    probe,              \* the name last classified, with the classifier's answers
    grassMounted,       \* a GrassField instance is mounted
    grassProps,         \* the props of the last render of GrassField
    grassMaterial,      \* GrassField state grassMaterial (object or Null)
    materialRef,        \* GrassField materialRef
    texturesRef,        \* GrassField texturesRef
    grassGeometryRef,   \* GrassField grassGeometryRef
    terrainGeometryRef, \* GrassField terrainGeometryRef
    lastScaleParamsRef, \* GrassField lastScaleParamsRef
    grassInstancedMesh, \* GrassField state grassInstancedMesh (object or Null)
    isMountedRef,       \* GrassField isMountedRef
    setupCleanup,       \* what the cleanup of the last setup effect run closes over
    islandGeometry,     \* the geometry of the terrain mesh of the cached island model
    heap,               \* every three.js object allocated so far, by identity
    disposeLog,         \* history: the objects disposed, in order
    grassOut            \* history: what the last GrassField step did

rendererVars == <<gl, contextLost>>
sceneVars == <<position, scale, posTween, scaleTween, activeTweens, accent, metadata, last>>
raycasterVars == <<pointer, lastEnabledState, requiresMouseMove, intersects>>
hoverVars == <<intersectsRef, hoveredMeshRef, unhoverTimeout, cursor>>
appVars == <<resourcesReady, setupTimer, isLoaderActive, isDialogOpen, interactiveMeshes>>
grassVars == <<grassMounted, grassProps, grassMaterial, materialRef, texturesRef,
               grassGeometryRef, terrainGeometryRef, lastScaleParamsRef, grassInstancedMesh,
               isMountedRef, setupCleanup, islandGeometry, heap, disposeLog, grassOut>>
vars == <<remountFrames, rendererVars, sceneMounted, appVars, sceneVars, raycasterVars, hoverVars,
          movedSinceEnable, timerSurvivedRegain, out, probe, pointerRow, grassVars>>

(***************************************************************************)
(* Bounds of the model.                                                    *)
(***************************************************************************)
MaxNameParts == 2
MaxGrassObjects == 20
MaxRemountFrames == 2

(***************************************************************************)
(* Strings: String.prototype.includes is a substring search.               *)
(***************************************************************************)
Includes(s, p) ==
    \E i \in 1..(Len(s) - Len(p) + 1) : SubSeq(s, i, i + Len(p) - 1) = p

(***************************************************************************)
(* sceneInteractions: pattern tables, classifier, action table.            *)
(***************************************************************************)
HOVERABLE_PATTERNS ==
    <<"computer", "disk", "phone", "button", "pCube", "cabinet_drawer">>

CLICKABLE_PATTERNS_withButton ==
    <<"phone", "disk_linkedin", "disk_github", "computer", "button",
      "cabinet_drawer_about", "cabinet_drawer_software", "cabinet_drawer_arts">>

CLICKABLE_PATTERNS ==
    <<"phone", "disk_linkedin", "disk_github", "computer",
      "cabinet_drawer_about", "cabinet_drawer_software", "cabinet_drawer_arts">>

ClickActions ==
    {"onPhoneClick", "onComputerClick", "onScreenClick", "onDiskLinkedInClick",
     "onDiskGithubClick", "onDrawerAboutClick", "onDrawerSoftwareClick",
     "onDrawerArtsClick"}

isHoverable(name) ==
    \E i \in 1..Len(HOVERABLE_PATTERNS) : Includes(name, HOVERABLE_PATTERNS[i])

isClickable(name) ==
    \E i \in 1..Len(CLICKABLE_PATTERNS) : Includes(name, CLICKABLE_PATTERNS[i])

classifyObject_hoverableFirst(name) ==
    IF isHoverable(name) THEN "hoverable"
    ELSE IF isClickable(name) THEN "clickable"
    ELSE "none"

classifyObject(name) ==
    IF isClickable(name) THEN "clickable"
    ELSE IF isHoverable(name) THEN "hoverable"
    ELSE "none"

getClickActionName_genericFirst(name) ==
    IF Includes(name, "phone") THEN "onPhoneClick"
    ELSE IF Includes(name, "disk_linkedin") THEN "onDiskLinkedInClick"
    ELSE IF Includes(name, "disk_github") THEN "onDiskGithubClick"
    ELSE IF Includes(name, "computer") THEN "onComputerClick"
    ELSE IF Includes(name, "computer_screen") THEN "onScreenClick"
    ELSE IF Includes(name, "cabinet_drawer_about") THEN "onDrawerAboutClick"
    ELSE IF Includes(name, "cabinet_drawer_software") THEN "onDrawerSoftwareClick"
    ELSE IF Includes(name, "cabinet_drawer_arts") THEN "onDrawerArtsClick"
    ELSE "null"

getClickActionName(name) ==
    IF Includes(name, "phone") THEN "onPhoneClick"
    ELSE IF Includes(name, "disk_linkedin") THEN "onDiskLinkedInClick"
    ELSE IF Includes(name, "disk_github") THEN "onDiskGithubClick"
    ELSE IF Includes(name, "computer_screen") THEN "onScreenClick"
    ELSE IF Includes(name, "computer") THEN "onComputerClick"
    ELSE IF Includes(name, "cabinet_drawer_about") THEN "onDrawerAboutClick"
    ELSE IF Includes(name, "cabinet_drawer_software") THEN "onDrawerSoftwareClick"
    ELSE IF Includes(name, "cabinet_drawer_arts") THEN "onDrawerArtsClick"
    ELSE "null"

(***************************************************************************)
(* Names the classifier is probed with: every concatenation of at most     *)
(* MaxNameParts fragments of the naming convention.                        *)
(***************************************************************************)
NameParts ==
    {"computer", "_screen", "disk", "_linkedin", "_github", "phone", "_base",
     "button", "pCube", "cabinet_drawer", "_about", "_arts", "Computer", "floor"}

(***************************************************************************)
(* The loaded scene: named meshes, their loaded transforms, the local      *)
(* bounding-box centre of each geometry, and which meshes the pointer ray  *)
(* crosses (nearest first) for each canvas cell.                           *)
(***************************************************************************)
SceneName ==
    <<"computer_screen", "computer_base", "phone_base", "phone_device",
      "cabinet_drawer_about", "cabinet_drawer_software", "pCube1",
      "disk_linkedin", "disk_github", "floor">>

Nodes == 1..Len(SceneName)
Null == 0
NoMeta == [interactionType |-> "none"]

LoadedScale(n) == IF n = 2 THEN <<200, 200, 200>> ELSE <<100, 100, 100>>
LoadedPosition(n) == <<100 * n, 50, 0>>
LocalCenter(n) == <<100 * n + 100, 250, 0>>

size == [width |-> 4, height |-> 4]
ClientXs == 0..3
ClientYs == 0..2

Layout ==
    <<  << <<>>,     <<1>>,    <<2>>,  <<7, 2>> >>,
        << <<3>>,    <<4, 3>>, <<5>>,  <<6>>    >>,
        << <<8>>,    <<9>>,    <<2>>,  <<10>>   >>,
        << <<>>,     <<>>,     <<>>,   <<>>     >>  >>

(***************************************************************************)
(* Vector3 arithmetic on <<x, y, z>>.                                      *)
(***************************************************************************)
VAdd(a, b) == [i \in 1..3 |-> a[i] + b[i]]
VSub(a, b) == [i \in 1..3 |-> a[i] - b[i]]
VScalePct(a, pct) == [i \in 1..3 |-> (a[i] * pct) \div 100]

(***************************************************************************)
(* Program constants of useObjectInteractions (scales as percentages).     *)
(***************************************************************************)
HOVER_SCALE == 108
HOVER_OVEREXTEND_SCALE == 115
DRAWER_SLIDE_DISTANCE == 100

(***************************************************************************)
(* gsap.  The live tween of a channel is the sequence of targets it still  *)
(* has to reach; the ticker of one animation frame brings the channel to   *)
(* the next one (an animation frame is the unit of time, and one tween     *)
(* lasts one frame).  A timeline plays its tweens on a channel back to     *)
(* back.  killTweensOf empties the channel and leaves the value where the  *)
(* ticker last put it.  active counts the tweens (or timelines) gsap holds *)
(* live on a channel: gsap.to adds one, killTweensOf removes all.          *)
(***************************************************************************)
GsapTo(to) == <<to>>

KillTweensOf_scaleOnly(w, obj) ==
    [w EXCEPT !.scaleTween[obj] = <<>>, !.active[obj].scale = 0]

KillTweensOf(w, obj) ==
    [w EXCEPT !.posTween[obj] = <<>>, !.scaleTween[obj] = <<>>,
              !.active[obj] = [position |-> 0, scale |-> 0]]

(***************************************************************************)
(* materialUtils: the accent colour becomes / stops being the colour       *)
(* target of the node's material.                                          *)
(***************************************************************************)
applyAccentColor(w, obj) == [w EXCEPT !.accent[obj] = TRUE]
restoreOriginalColors(w, obj) == [w EXCEPT !.accent[obj] = FALSE]

(***************************************************************************)
(* playHoverAnimation, one operator per branch.  w is the scene (the       *)
(* record World below); the result is the scene after the call.            *)
(***************************************************************************)
DrawerAnimation(w, obj, initialPosition, isHovering) ==
    LET k == KillTweensOf(w, obj)
        slideDirection == <<0, 0, DRAWER_SLIDE_DISTANCE * 10>>
        targetPosition == IF isHovering THEN VAdd(initialPosition, slideDirection)
                          ELSE initialPosition
    IN  [k EXCEPT !.posTween[obj] = GsapTo(targetPosition),
                  !.active[obj].position = @ + 1]

PCubeAnimation(w, obj, initialPosition, isHovering) ==
    LET k == applyAccentColor(KillTweensOf(w, obj), obj)
        targetPosition == IF isHovering THEN VAdd(initialPosition, <<0, -33, 0>>)
                          ELSE initialPosition
    IN  [k EXCEPT !.posTween[obj] = GsapTo(targetPosition),
                  !.active[obj].position = @ + 1]

ScaleAnimation_fromCurrentPose(w, obj, initialScale, initialPosition, isHovering) ==
    LET k == KillTweensOf(w, obj)
        offsetFromInitial == VSub(LocalCenter(obj), w.position[obj])
        newPosition ==
            VSub(w.position[obj], VScalePct(offsetFromInitial, HOVER_SCALE - 100))
        overextendPosition ==
            VSub(w.position[obj],
                 VScalePct(offsetFromInitial, HOVER_OVEREXTEND_SCALE - 100))
        overextendScale == VScalePct(w.scale[obj], HOVER_OVEREXTEND_SCALE)
        hoverScale == VScalePct(w.scale[obj], HOVER_SCALE)
    IN  IF isHovering
        THEN [k EXCEPT
                !.scaleTween[obj] = GsapTo(overextendScale)
                                    \o GsapTo(hoverScale),
                !.posTween[obj] = GsapTo(overextendPosition)
                                  \o GsapTo(newPosition),
                !.active[obj] = [position |-> @.position + 1, scale |-> @.scale + 1]]
        ELSE [k EXCEPT
                !.scaleTween[obj] = GsapTo(initialScale),
                !.posTween[obj] = GsapTo(initialPosition),
                !.active[obj] = [position |-> @.position + 1, scale |-> @.scale + 1]]

ScaleAnimation(w, obj, initialScale, initialPosition, isHovering) ==
    LET k == KillTweensOf(w, obj)
        offsetFromInitial == VSub(LocalCenter(obj), initialPosition)
        newPosition ==
            VSub(initialPosition, VScalePct(offsetFromInitial, HOVER_SCALE - 100))
        overextendPosition ==
            VSub(initialPosition,
                 VScalePct(offsetFromInitial, HOVER_OVEREXTEND_SCALE - 100))
        overextendScale == VScalePct(initialScale, HOVER_OVEREXTEND_SCALE)
        hoverScale == VScalePct(initialScale, HOVER_SCALE)
    IN  IF isHovering
        THEN [k EXCEPT
                !.scaleTween[obj] = GsapTo(overextendScale)
                                    \o GsapTo(hoverScale),
                !.posTween[obj] = GsapTo(overextendPosition)
                                  \o GsapTo(newPosition),
                !.active[obj] = [position |-> @.position + 1, scale |-> @.scale + 1]]
        ELSE [k EXCEPT
                !.scaleTween[obj] = GsapTo(initialScale),
                !.posTween[obj] = GsapTo(initialPosition),
                !.active[obj] = [position |-> @.position + 1, scale |-> @.scale + 1]]

playHoverAnimation_inPlaceAdd(w, originalObject, initialScale, initialPosition, isHovering) ==
    LET isDrawer == Includes(SceneName[originalObject], "cabinet_drawer_")
        isPCube == Includes(SceneName[originalObject], "pCube")
        r == IF isDrawer
                THEN DrawerAnimation(w, originalObject, initialPosition, isHovering)
             ELSE IF isPCube
                THEN PCubeAnimation(w, originalObject, initialPosition, isHovering)
             ELSE ScaleAnimation(w, originalObject, initialScale, initialPosition, isHovering)
    IN  IF isHovering /\ (isDrawer \/ isPCube)
        THEN [r EXCEPT !.metadata[originalObject].initialPosition =
                            r.posTween[originalObject][Len(r.posTween[originalObject])]]
        ELSE r

playHoverAnimation(w, originalObject, initialScale, initialPosition, isHovering) ==
    LET isDrawer == Includes(SceneName[originalObject], "cabinet_drawer_")
        isPCube == Includes(SceneName[originalObject], "pCube")
    IN  IF isDrawer
        THEN DrawerAnimation(w, originalObject, initialPosition, isHovering)
        ELSE IF isPCube
        THEN PCubeAnimation(w, originalObject, initialPosition, isHovering)
        ELSE ScaleAnimation(w, originalObject, initialScale, initialPosition, isHovering)

(***************************************************************************)
(* The scene as one value, so that the animation calls of a pass compose.  *)
(* events collects the enter/exit starts of the pass (history).            *)
(***************************************************************************)
World ==
    [position |-> position, scale |-> scale, posTween |-> posTween,
     scaleTween |-> scaleTween, active |-> activeTweens, accent |-> accent,
     metadata |-> metadata, last |-> last, events |-> <<>>]

(***************************************************************************)
(* getGroupMetas: the nodes animated together with a hovered node, in      *)
(* registry order (a node stands for its metadata record).                 *)
(***************************************************************************)
findGroup(w, pattern) ==
    SelectSeq(interactiveMeshes,
              LAMBDA mesh : w.metadata[mesh] # NoMeta
                            /\ Includes(SceneName[mesh], pattern))

getGroupMetas_drawerGroup(w, meta) ==
    IF meta = NoMeta THEN <<>>
    ELSE LET name == SceneName[meta.originalObject]
         IN  IF Includes(name, "computer_") THEN findGroup(w, "computer_")
             ELSE IF Includes(name, "phone_base") THEN findGroup(w, "phone_")
             ELSE IF Includes(name, "cabinet_drawer_") THEN findGroup(w, "cabinet_drawer_")
             ELSE <<meta.originalObject>>

getGroupMetas_phoneTwoWay(w, meta) ==
    IF meta = NoMeta THEN <<>>
    ELSE LET name == SceneName[meta.originalObject]
         IN  IF Includes(name, "computer_") THEN findGroup(w, "computer_")
             ELSE IF Includes(name, "phone_") THEN findGroup(w, "phone_")
             ELSE <<meta.originalObject>>

getGroupMetas(w, meta) ==
    IF meta = NoMeta THEN <<>>
    ELSE LET name == SceneName[meta.originalObject]
         IN  IF Includes(name, "computer_") THEN findGroup(w, "computer_")
             ELSE IF Includes(name, "phone_base") THEN findGroup(w, "phone_")
             ELSE <<meta.originalObject>>

(***************************************************************************)
(* The loops over a group: exit (animation, then colour restore) and       *)
(* enter, each call recorded as an exit-start / enter-start of its node.   *)
(***************************************************************************)
StartTransition(w, m, isHovering) ==
    LET meta == w.metadata[m]
        played == playHoverAnimation(w, meta.originalObject, meta.initialScale,
                                     meta.initialPosition, isHovering)
        done == IF isHovering THEN played
                ELSE restoreOriginalColors(played, meta.originalObject)
        kind == IF isHovering THEN "enter" ELSE "exit"
    IN  [done EXCEPT !.events = Append(@, <<m, kind>>), !.last[m] = kind]

RECURSIVE ForEachMeta(_, _, _)
ForEachMeta(w, group, isHovering) ==
    IF group = <<>> THEN w
    ELSE ForEachMeta(StartTransition(w, Head(group), isHovering), Tail(group), isHovering)

(***************************************************************************)
(* useSceneRaycaster.                                                      *)
(***************************************************************************)
EnabledOf(meshes, dialogOpen, loaderActive) ==
    Len(meshes) > 0 /\ ~dialogOpen /\ ~loaderActive

Enabled == EnabledOf(interactiveMeshes, isDialogOpen, isLoaderActive)

updatePointer(clientX, clientY) ==
    [x |-> (clientX * 200) \div size.width - 100,
     y |-> 100 - (clientY * 200) \div size.height]

\* The canvas cell a normalised pointer position falls in (row, column).
Cell(p) ==
    <<((100 - p.y) * size.height) \div 200 + 1, ((p.x + 100) * size.width) \div 200 + 1>>

\* A mesh that an animation has moved or scaled away from the pose it was loaded in.
Displaced(w, n) == w.position[n] # LoadedPosition(n) \/ w.scale[n] # LoadedScale(n)

\* The hit lists a ray through the meshes s (nearest first) can give: a mesh
\* in its loaded pose is hit, a displaced one may have left the ray.
RECURSIVE RayHits(_, _)
RayHits(w, s) ==
    IF s = <<>> THEN {<<>>}
    ELSE LET rest == RayHits(w, Tail(s))
         IN  {<<Head(s)>> \o r : r \in rest}
             \cup (IF Displaced(w, Head(s)) THEN rest ELSE {})

intersectObjects(w, p) ==
    LET c == Cell(p)
        along == SelectSeq(Layout[c[1]][c[2]],
                           LAMBDA n : \E i \in 1..Len(interactiveMeshes) :
                                          interactiveMeshes[i] = n)
    IN  RayHits(w, along)

\* The values the raycaster's frame callback can pass to setIntersects.
RaycasterFrame_ignoreRequiresMove(w) ==
    IF ~Enabled \/ Len(interactiveMeshes) = 0
    THEN {<<>>}
    ELSE intersectObjects(w, pointer)

RaycasterFrame_ignoreEnabled(w) ==
    IF Len(interactiveMeshes) = 0 \/ requiresMouseMove
    THEN {<<>>}
    ELSE intersectObjects(w, pointer)

RaycasterFrame(w) ==
    IF ~Enabled \/ Len(interactiveMeshes) = 0 \/ requiresMouseMove
    THEN {<<>>}
    ELSE intersectObjects(w, pointer)

\* The effect on [enabled]: the value of requiresMouseMoveRef after a render
\* in which enabled is enabledNow.
RequiresMouseMoveAfter(enabledNow) ==
    IF ~lastEnabledState /\ enabledNow THEN TRUE ELSE requiresMouseMove

(***************************************************************************)
(* useObjectInteractions: the click handler.  The result lists the entries *)
(* of clickActions it invoked and the URLs it opened.                      *)
(***************************************************************************)
LINKEDIN_URL == "https://www.linkedin.com/in/vincent-xian/"
GITHUB_URL == "https://github.com/pwazta"
NoEffect == [called |-> <<>>, opened |-> <<>>]

ClickOn(objectName) ==
    IF Includes(objectName, "disk_linkedin")
    THEN [called |-> <<>>, opened |-> <<LINKEDIN_URL>>]
    ELSE IF Includes(objectName, "disk_github")
    THEN [called |-> <<>>, opened |-> <<GITHUB_URL>>]
    ELSE LET actionName == getClickActionName(objectName)
         IN  IF actionName # "null" /\ actionName \in ClickActions
             THEN [called |-> <<actionName>>, opened |-> <<>>]
             ELSE NoEffect

handleClick_noExternalLinks(currentIntersects) ==
    IF Len(currentIntersects) = 0 THEN NoEffect
    ELSE IF metadata[currentIntersects[1]].interactionType # "clickable" THEN NoEffect
    ELSE LET actionName == getClickActionName(SceneName[currentIntersects[1]])
         IN  IF actionName # "null" /\ actionName \in ClickActions
             THEN [called |-> <<actionName>>, opened |-> <<>>]
             ELSE NoEffect

handleClick_firstClickable(currentIntersects) ==
    LET clickables == SelectSeq(currentIntersects,
                                LAMBDA n : metadata[n].interactionType = "clickable")
    IN  IF Len(clickables) = 0 THEN NoEffect
        ELSE ClickOn(SceneName[clickables[1]])

handleClick(currentIntersects) ==
    IF Len(currentIntersects) = 0 THEN NoEffect
    ELSE LET clickedMesh == currentIntersects[1]
         IN  IF metadata[clickedMesh].interactionType # "clickable" THEN NoEffect
             ELSE ClickOn(SceneName[clickedMesh])

\* The entries of the scene's clickActions table whose application callback
\* opens a modal (page.tsx sets the modal's open state).
OpensDialog(actionName) ==
    actionName \in {"onPhoneClick", "onComputerClick", "onDrawerAboutClick",
                    "onDrawerSoftwareClick", "onDrawerArtsClick"}

(***************************************************************************)
(* useObjectInteractions: the per-frame hover pass.                        *)
(***************************************************************************)
NoTimeout == [pending |-> FALSE, prevMesh |-> Null]

CursorFor(meta) == IF meta.interactionType = "clickable" THEN "pointer" ELSE "default"

\* Lines 326-347: a new mesh with metadata is hovered.
HoverTargetChanged_noExit(w, prevMesh, hoveredMesh) ==
    ForEachMeta(w, getGroupMetas(w, w.metadata[hoveredMesh]), TRUE)

HoverTargetChanged_enterFirst(w, prevMesh, hoveredMesh) ==
    LET applied == ForEachMeta(w, getGroupMetas(w, w.metadata[hoveredMesh]), TRUE)
        cleared == IF prevMesh # Null
                   THEN ForEachMeta(applied, getGroupMetas(applied, applied.metadata[prevMesh]),
                                    FALSE)
                   ELSE applied
    IN  IF cleared.metadata[hoveredMesh].interactionType = "clickable"
        THEN applyAccentColor(cleared, hoveredMesh)
        ELSE cleared

HoverTargetChanged(w, prevMesh, hoveredMesh) ==
    LET cleared == IF prevMesh # Null
                   THEN ForEachMeta(w, getGroupMetas(w, w.metadata[prevMesh]), FALSE)
                   ELSE w
        applied == ForEachMeta(cleared, getGroupMetas(cleared, cleared.metadata[hoveredMesh]), TRUE)
    IN  IF applied.metadata[hoveredMesh].interactionType = "clickable"
        THEN applyAccentColor(applied, hoveredMesh)
        ELSE applied

HoverPass_noCancel(w) ==
    LET currentIntersects == intersectsRef
        hoveredMesh == IF Len(currentIntersects) > 0 THEN currentIntersects[1] ELSE Null
        prevMesh == hoveredMeshRef
        meta == IF hoveredMesh # Null THEN metadata[hoveredMesh] ELSE NoMeta
        same == [w |-> w, hoveredMeshRef |-> hoveredMeshRef,
                 unhoverTimeout |-> unhoverTimeout, cursor |-> cursor]
    IN  IF ~Enabled THEN same
        ELSE IF hoveredMesh = prevMesh
        THEN [same EXCEPT !.cursor = CursorFor(meta)]
        ELSE IF hoveredMesh # Null /\ meta # NoMeta
        THEN [w |-> HoverTargetChanged(w, prevMesh, hoveredMesh),
              hoveredMeshRef |-> hoveredMesh,
              unhoverTimeout |-> unhoverTimeout,
              cursor |-> CursorFor(meta)]
        ELSE IF hoveredMesh = Null /\ prevMesh # Null
        THEN [same EXCEPT
                !.unhoverTimeout = IF unhoverTimeout.pending THEN unhoverTimeout
                                   ELSE [pending |-> TRUE, prevMesh |-> prevMesh],
                !.cursor = CursorFor(metadata[prevMesh])]
        ELSE [same EXCEPT !.cursor = "default"]

\* The whole callback: the scene and the refs after it.
HoverPass(w) ==
    LET currentIntersects == intersectsRef
        hoveredMesh == IF Len(currentIntersects) > 0 THEN currentIntersects[1] ELSE Null
        prevMesh == hoveredMeshRef
        meta == IF hoveredMesh # Null THEN metadata[hoveredMesh] ELSE NoMeta
        same == [w |-> w, hoveredMeshRef |-> hoveredMeshRef,
                 unhoverTimeout |-> unhoverTimeout, cursor |-> cursor]
        timeoutAfterCancel == IF hoveredMesh # Null /\ unhoverTimeout.pending
                              THEN NoTimeout ELSE unhoverTimeout
    IN  IF ~Enabled THEN same
        ELSE IF hoveredMesh = prevMesh
        THEN [same EXCEPT !.cursor = CursorFor(meta)]
        ELSE IF hoveredMesh # Null /\ meta # NoMeta
        THEN [w |-> HoverTargetChanged(w, prevMesh, hoveredMesh),
              hoveredMeshRef |-> hoveredMesh,
              unhoverTimeout |-> timeoutAfterCancel,
              cursor |-> CursorFor(meta)]
        ELSE IF hoveredMesh = Null /\ prevMesh # Null
        THEN [same EXCEPT
                !.unhoverTimeout = IF unhoverTimeout.pending THEN unhoverTimeout
                                   ELSE [pending |-> TRUE, prevMesh |-> prevMesh],
                !.cursor = CursorFor(metadata[prevMesh])]
        ELSE [same EXCEPT !.unhoverTimeout = timeoutAfterCancel, !.cursor = "default"]

\* Lines 352-365: the delayed unhover callback.
UnhoverCallback_onlyHoveredNode ==
    LET stillPrevMesh == hoveredMeshRef
    IN  IF stillPrevMesh # Null /\ stillPrevMesh = unhoverTimeout.prevMesh
        THEN [w |-> ForEachMeta(World, <<stillPrevMesh>>, FALSE),
              hoveredMeshRef |-> Null, cursor |-> "default"]
        ELSE [w |-> World, hoveredMeshRef |-> hoveredMeshRef, cursor |-> cursor]

UnhoverCallback ==
    LET stillPrevMesh == hoveredMeshRef
    IN  IF stillPrevMesh # Null /\ stillPrevMesh = unhoverTimeout.prevMesh
        THEN [w |-> ForEachMeta(World, getGroupMetas(World, metadata[stillPrevMesh]), FALSE),
              hoveredMeshRef |-> Null, cursor |-> "default"]
        ELSE [w |-> World, hoveredMeshRef |-> hoveredMeshRef, cursor |-> cursor]

(***************************************************************************)
(* History of the step just taken: the handler that ran, the hit list it   *)
(* read, the hovered mesh before it, the enter/exit starts it made, the    *)
(* callbacks it invoked and the URLs it opened.  For an unmount, prev is   *)
(* the node of the timer that was pending when it ran.                     *)
(***************************************************************************)
OutNone ==
    [op |-> "none", prev |-> Null, events |-> <<>>, called |-> <<>>, opened |-> <<>>]

\* A render in which enabled takes the value enabledNow, with its effects.
Rendered(enabledNow) ==
    /\ requiresMouseMove' = RequiresMouseMoveAfter(enabledNow)
    /\ lastEnabledState' = enabledNow
    /\ movedSinceEnable' = IF ~Enabled /\ enabledNow THEN FALSE ELSE movedSinceEnable

SetScene(w) ==
    /\ position' = w.position
    /\ scale' = w.scale
    /\ posTween' = w.posTween
    /\ scaleTween' = w.scaleTween
    /\ activeTweens' = w.active
    /\ accent' = w.accent
    /\ metadata' = w.metadata
    /\ last' = w.last

(***************************************************************************)
(* GrassField.  Objects (geometries, materials, textures, instanced        *)
(* meshes) are identified by their index in heap.  Geometry scales are in  *)
(* tenths (a scale of 1.0 is 10); props are given in the same unit.        *)
(***************************************************************************)
ISLAND_ASSET == 1
GRASS_LOD00_ASSET == 2

GrassPropsDomain ==
    [grassCount : {1, 2}, terrainScale : {20, 30}, terrainHeightScale : {5},
     grassScale : {50, 80}, grassHeightScale : {4}]

\* The props SceneContent passes.
SceneGrassProps ==
    [grassCount |-> 1, terrainScale |-> 20, terrainHeightScale |-> 5,
     grassScale |-> 80, grassHeightScale |-> 4]

NoParams == [set |-> FALSE]
NoCleanup == [set |-> FALSE]
NoTextures == [grassAlpha |-> Null, noise |-> Null]

Obj(kind, scaleOf, geometry, material, count) ==
    [kind |-> kind, scale |-> scaleOf, geometry |-> geometry, material |-> material,
     count |-> count]

AssetGeometry == Obj("geometry", <<10, 10, 10>>, Null, Null, 0)

\* BufferGeometry.scale(x, y, z) applied to a geometry whose scale is s.
GeometryScale(s, x, y, z) == <<(s[1] * x) \div 10, (s[2] * y) \div 10, (s[3] * z) \div 10>>

\* The dependency list of the setup effect: does the effect run after a
\* render with props p and material m, the last render having had q and l.
SetupDepsChanged_everyRender(q, l, p, m) == TRUE

SetupDepsChanged(q, l, p, m) == q # p \/ l # m

\* The body of the setup effect, run with props p on the component state g
\* (a record of the GrassField variables); the result is g after the run.
SetupEffect(g, p) ==
    IF g.grassMaterial = Null THEN g
    ELSE
    LET currentScaleParams ==
            [set |-> TRUE, terrainScale |-> p.terrainScale,
             terrainHeightScale |-> p.terrainHeightScale,
             grassScale |-> p.grassScale, grassHeightScale |-> p.grassHeightScale]
        scaleParamsChanged == g.lastScaleParamsRef # currentScaleParams
        \* new THREE.MeshPhongMaterial
        h1 == Append(g.heap, Obj("terrainMaterial", <<0, 0, 0>>, Null, Null, 0))
        terrainMaterial == Len(h1)
        cloneTerrain == scaleParamsChanged \/ g.terrainGeometryRef = Null
        d1 == IF cloneTerrain /\ g.terrainGeometryRef # Null
              THEN Append(g.disposeLog, g.terrainGeometryRef) ELSE g.disposeLog
        h2 == IF cloneTerrain
              THEN Append(h1, Obj("geometry",
                                  GeometryScale(h1[g.islandGeometry].scale,
                                                p.terrainScale,
                                                (p.terrainScale * p.terrainHeightScale) \div 10,
                                                p.terrainScale),
                                  Null, Null, 0))
              ELSE h1
        terrainGeometry == IF cloneTerrain THEN Len(h2) ELSE g.terrainGeometryRef
        cloneGrass == scaleParamsChanged \/ g.grassGeometryRef = Null
        d2 == IF cloneGrass /\ g.grassGeometryRef # Null
              THEN Append(d1, g.grassGeometryRef) ELSE d1
        h3 == IF cloneGrass
              THEN Append(h2, Obj("geometry",
                                  GeometryScale(h2[GRASS_LOD00_ASSET].scale,
                                                p.grassScale,
                                                (p.grassScale * p.grassHeightScale) \div 10,
                                                p.grassScale),
                                  Null, Null, 0))
              ELSE h2
        grassGeometry == IF cloneGrass THEN Len(h3) ELSE g.grassGeometryRef
        \* new THREE.InstancedMesh(grassGeometry, grassMaterial.material, grassCount)
        h4 == Append(h3, Obj("instancedMesh", <<0, 0, 0>>, grassGeometry,
                             g.grassMaterial, p.grassCount))
        instancedMesh == Len(h4)
    IN  [g EXCEPT !.heap = h4,
                  !.disposeLog = d2,
                  !.terrainGeometryRef = terrainGeometry,
                  !.islandGeometry = IF cloneTerrain THEN terrainGeometry ELSE @,
                  !.grassGeometryRef = grassGeometry,
                  !.lastScaleParamsRef = currentScaleParams,
                  !.grassInstancedMesh = instancedMesh,
                  !.setupCleanup = [set |-> TRUE, instancedMesh |-> instancedMesh,
                                    terrainMaterial |-> terrainMaterial]]

\* The cleanup returned by the last run of the setup effect.
SetupEffectCleanup(g) ==
    IF ~g.setupCleanup.set \/ ~g.isMountedRef THEN [g EXCEPT !.setupCleanup = NoCleanup]
    ELSE [g EXCEPT !.disposeLog = @ \o <<g.setupCleanup.instancedMesh,
                                          g.setupCleanup.terrainMaterial>>,
                   !.setupCleanup = NoCleanup]

\* The material effect and its cleanup.
MaterialEffect(g) ==
    LET h == Append(g.heap, Obj("grassMaterial", <<0, 0, 0>>, Null, Null, 0))
    IN  [g EXCEPT !.heap = h, !.materialRef = Len(h), !.grassMaterial = Len(h)]

MaterialEffectCleanup(g) ==
    IF g.materialRef # Null
    THEN [g EXCEPT !.disposeLog = Append(@, g.materialRef), !.materialRef = Null]
    ELSE g

\* The cleanup of the mount effect: material, then textures, then geometries.
UnmountCleanup(g) ==
    LET d1 == IF g.materialRef # Null THEN Append(g.disposeLog, g.materialRef)
              ELSE g.disposeLog
        d2 == IF g.texturesRef.grassAlpha # Null THEN Append(d1, g.texturesRef.grassAlpha)
              ELSE d1
        d3 == IF g.texturesRef.noise # Null THEN Append(d2, g.texturesRef.noise) ELSE d2
        d4 == IF g.grassGeometryRef # Null THEN Append(d3, g.grassGeometryRef) ELSE d3
        d5 == IF g.terrainGeometryRef # Null THEN Append(d4, g.terrainGeometryRef) ELSE d4
    IN  [g EXCEPT !.isMountedRef = FALSE, !.disposeLog = d5, !.materialRef = Null,
                  !.texturesRef = NoTextures, !.grassGeometryRef = Null,
                  !.terrainGeometryRef = Null]

\* The two texture memos of the first render.
LoadTextures(g) ==
    LET h == g.heap \o <<Obj("texture", <<0, 0, 0>>, Null, Null, 0),
                         Obj("texture", <<0, 0, 0>>, Null, Null, 0)>>
    IN  [g EXCEPT !.heap = h,
                  !.texturesRef = [grassAlpha |-> Len(h) - 1, noise |-> Len(h)]]

GrassState ==
    [grassMaterial |-> grassMaterial, materialRef |-> materialRef,
     texturesRef |-> texturesRef, grassGeometryRef |-> grassGeometryRef,
     terrainGeometryRef |-> terrainGeometryRef, lastScaleParamsRef |-> lastScaleParamsRef,
     grassInstancedMesh |-> grassInstancedMesh, isMountedRef |-> isMountedRef,
     setupCleanup |-> setupCleanup, islandGeometry |-> islandGeometry, heap |-> heap,
     disposeLog |-> disposeLog]

\* A freshly constructed component: state and refs at their initial values;
\* the cached models, the heap and the history outlive the component.
FreshGrassState ==
    [GrassState EXCEPT !.grassMaterial = Null, !.materialRef = Null,
                       !.texturesRef = NoTextures, !.grassGeometryRef = Null,
                       !.terrainGeometryRef = Null, !.lastScaleParamsRef = NoParams,
                       !.grassInstancedMesh = Null, !.isMountedRef = TRUE,
                       !.setupCleanup = NoCleanup]

SetGrassState(g) ==
    /\ grassMaterial' = g.grassMaterial
    /\ materialRef' = g.materialRef
    /\ texturesRef' = g.texturesRef
    /\ grassGeometryRef' = g.grassGeometryRef
    /\ terrainGeometryRef' = g.terrainGeometryRef
    /\ lastScaleParamsRef' = g.lastScaleParamsRef
    /\ grassInstancedMesh' = g.grassInstancedMesh
    /\ isMountedRef' = g.isMountedRef
    /\ setupCleanup' = g.setupCleanup
    /\ islandGeometry' = g.islandGeometry
    /\ heap' = g.heap
    /\ disposeLog' = g.disposeLog

GrassOutNone == [op |-> "none", ran |-> FALSE]

(***************************************************************************)
(* RendererConfig.  The configuration the effect writes to the renderer,   *)
(* and what a lost graphics context may leave of it: the renderer treats   *)
(* its configuration as ephemeral, so after a loss it holds either the     *)
(* values written, or the library defaults, or the defaults for the shadow *)
(* map alone.                                                              *)
(***************************************************************************)
RendererSettings ==
    [shadowMapEnabled |-> TRUE, shadowMapType |-> "PCFSoftShadowMap",
     outputColorSpace |-> "SRGBColorSpace", toneMapping |-> "ACESFilmicToneMapping"]

RendererDefaults ==
    [shadowMapEnabled |-> FALSE, shadowMapType |-> "PCFShadowMap",
     outputColorSpace |-> "SRGBColorSpace", toneMapping |-> "NoToneMapping"]

LostConfigs ==
    {RendererSettings, RendererDefaults,
     [RendererSettings EXCEPT !.shadowMapEnabled = FALSE, !.shadowMapType = "PCFShadowMap"]}

\* handleContextLost and handleContextRestored: contextLost and gl after them.
handleContextLost(config) == [contextLost |-> TRUE, gl |-> config]

handleContextRestored_onlyState(config) == [contextLost |-> FALSE, gl |-> config]

handleContextRestored(config) ==
    [contextLost |-> FALSE,
     gl |-> [config EXCEPT !.shadowMapEnabled = TRUE,
                           !.shadowMapType = "PCFSoftShadowMap",
                           !.outputColorSpace = "SRGBColorSpace",
                           !.toneMapping = "ACESFilmicToneMapping"]]

(***************************************************************************)
(* Initial state: the component tree is mounted, the models are loading,   *)
(* the loader is shown and the registry is empty.                          *)
(***************************************************************************)
Init ==
    /\ resourcesReady = FALSE
    /\ setupTimer = FALSE
    /\ isLoaderActive = TRUE
    /\ isDialogOpen = FALSE
    /\ interactiveMeshes = <<>>
    /\ metadata = [n \in Nodes |-> NoMeta]
    /\ position = [n \in Nodes |-> LoadedPosition(n)]
    /\ scale = [n \in Nodes |-> LoadedScale(n)]
    /\ posTween = [n \in Nodes |-> <<>>]
    /\ scaleTween = [n \in Nodes |-> <<>>]
    /\ activeTweens = [n \in Nodes |-> [position |-> 0, scale |-> 0]]
    /\ accent = [n \in Nodes |-> FALSE]
    /\ pointer = [x |-> 0, y |-> 0]
    /\ lastEnabledState = FALSE
    /\ requiresMouseMove = FALSE
    /\ intersects = <<>>
    /\ intersectsRef = <<>>
    /\ hoveredMeshRef = Null
    /\ unhoverTimeout = NoTimeout
    /\ cursor = ""
    /\ last = [n \in Nodes |-> "none"]
    /\ gl = RendererSettings
    /\ contextLost = FALSE
    /\ sceneMounted = TRUE
    /\ remountFrames = 0
    /\ movedSinceEnable = FALSE
    /\ timerSurvivedRegain = FALSE
    /\ out = OutNone
    /\ pointerRow \in ClientYs
    /\ probe = [name |-> "", parts |-> 0, interactionType |-> "none", action |-> "null"]
    /\ grassMounted = FALSE
    /\ grassProps = SceneGrassProps
    /\ grassMaterial = Null
    /\ materialRef = Null
    /\ texturesRef = NoTextures
    /\ grassGeometryRef = Null
    /\ terrainGeometryRef = Null
    /\ lastScaleParamsRef = NoParams
    /\ grassInstancedMesh = Null
    /\ isMountedRef = FALSE
    /\ setupCleanup = NoCleanup
    /\ islandGeometry = ISLAND_ASSET
    /\ heap = <<AssetGeometry, AssetGeometry>>
    /\ disposeLog = <<>>
    /\ grassOut = GrassOutNone

(***************************************************************************)
(* SceneContent: resources ready, then the registry setup timer.           *)
(***************************************************************************)
ResourcesReady ==
    /\ sceneMounted
    /\ ~resourcesReady
    /\ resourcesReady' = TRUE
    /\ setupTimer' = TRUE
    /\ out' = OutNone
    /\ UNCHANGED <<remountFrames, rendererVars, sceneMounted, isLoaderActive,
                   isDialogOpen, interactiveMeshes, sceneVars, raycasterVars,
                   hoverVars, movedSinceEnable, probe, pointerRow, timerSurvivedRegain,
                   grassVars>>

\* setupInteractiveObjects: classify every named mesh, capture its pose.
setupInteractiveObjects ==
    LET interactive == SelectSeq([i \in 1..Len(SceneName) |-> i],
                                 LAMBDA mesh : classifyObject(SceneName[mesh]) # "none")
    IN  [interactiveMeshes |-> interactive,
         metadata |-> [mesh \in Nodes |->
                          IF classifyObject(SceneName[mesh]) # "none"
                          THEN [originalObject |-> mesh,
                                interactionType |-> classifyObject(SceneName[mesh]),
                                initialScale |-> scale[mesh],
                                initialPosition |-> position[mesh]]
                          ELSE metadata[mesh]]]

SetupInteractiveObjects ==
    /\ sceneMounted
    /\ setupTimer
    /\ setupTimer' = FALSE
    /\ LET r == setupInteractiveObjects
       IN  /\ interactiveMeshes' = r.interactiveMeshes
           /\ metadata' = r.metadata
           /\ Rendered(EnabledOf(r.interactiveMeshes, isDialogOpen, isLoaderActive))
    /\ out' = OutNone
    /\ UNCHANGED <<remountFrames, rendererVars, sceneMounted, resourcesReady,
                   isLoaderActive, isDialogOpen, position, scale, posTween, scaleTween,
                   activeTweens, accent, last, pointer, intersects, hoverVars, probe,
                   pointerRow, timerSurvivedRegain, grassVars>>

LoaderDone ==
    /\ sceneMounted
    /\ isLoaderActive
    /\ isLoaderActive' = FALSE
    /\ Rendered(EnabledOf(interactiveMeshes, isDialogOpen, FALSE))
    /\ out' = OutNone
    /\ UNCHANGED <<remountFrames, rendererVars, sceneMounted, resourcesReady,
                   setupTimer, isDialogOpen, interactiveMeshes, sceneVars, pointer,
                   intersects, hoverVars, probe, pointerRow, timerSurvivedRegain,
                   grassVars>>

\* A modal is opened from the navigation bar, or the open modal is closed.
SetDialogOpen(open) ==
    /\ sceneMounted
    /\ isDialogOpen # open
    /\ isDialogOpen' = open
    /\ Rendered(EnabledOf(interactiveMeshes, open, isLoaderActive))
    /\ out' = OutNone
    /\ UNCHANGED <<remountFrames, rendererVars, sceneMounted, resourcesReady,
                   setupTimer, isLoaderActive, interactiveMeshes, sceneVars, pointer,
                   intersects, hoverVars, probe, pointerRow, timerSurvivedRegain,
                   grassVars>>

OpenDialog == SetDialogOpen(TRUE)
CloseDialog == SetDialogOpen(FALSE)

(***************************************************************************)
(* Input events.                                                           *)
(***************************************************************************)
\* mousemove / touchmove: the listeners exist only while enabled.
PointerMove_runsHoverPass ==
    /\ sceneMounted
    /\ Enabled
    /\ \E clientX \in ClientXs : pointer' = updatePointer(clientX, pointerRow)
    /\ requiresMouseMove' = FALSE
    /\ movedSinceEnable' = TRUE
    /\ LET h == HoverPass(World)
       IN  /\ SetScene(h.w)
           /\ hoveredMeshRef' = h.hoveredMeshRef
           /\ unhoverTimeout' = h.unhoverTimeout
           /\ cursor' = h.cursor
    /\ out' = OutNone
    /\ UNCHANGED <<remountFrames, rendererVars, sceneMounted, appVars,
                   lastEnabledState, intersects, intersectsRef, probe, pointerRow,
                   timerSurvivedRegain, grassVars>>

PointerMove ==
    /\ sceneMounted
    /\ Enabled
    /\ \E clientX \in ClientXs : pointer' = updatePointer(clientX, pointerRow)
    /\ requiresMouseMove' = FALSE
    /\ movedSinceEnable' = TRUE
    /\ out' = OutNone
    /\ UNCHANGED <<remountFrames, rendererVars, sceneMounted, appVars, sceneVars,
                   lastEnabledState, intersects, hoverVars, probe, pointerRow,
                   timerSurvivedRegain, grassVars>>

\* click / touchend: handleClick is attached only while enabled; the
\* application callback of a modal action opens its modal.
Activate ==
    LET r == IF Enabled THEN handleClick(intersectsRef) ELSE NoEffect
        opens == \E i \in 1..Len(r.called) : OpensDialog(r.called[i])
    IN  /\ sceneMounted
        /\ out' = [OutNone EXCEPT !.op = "activate",
                                  !.called = r.called, !.opened = r.opened]
        /\ isDialogOpen' = (isDialogOpen \/ opens)
        /\ Rendered(EnabledOf(interactiveMeshes, isDialogOpen \/ opens, isLoaderActive))
        /\ UNCHANGED <<remountFrames, rendererVars, sceneMounted, resourcesReady,
                       setupTimer, isLoaderActive, interactiveMeshes, sceneVars,
                       pointer, intersects, hoverVars, probe, pointerRow,
                       timerSurvivedRegain, grassVars>>

(***************************************************************************)
(* The gsap ticker: every live tween moves on to its next keyframe.        *)
(***************************************************************************)
Ticked(w) ==
    [w EXCEPT
       !.position = [n \in Nodes |-> IF w.posTween[n] # <<>> THEN Head(w.posTween[n])
                                     ELSE w.position[n]],
       !.posTween = [n \in Nodes |-> IF w.posTween[n] # <<>> THEN Tail(w.posTween[n])
                                     ELSE <<>>],
       !.scale = [n \in Nodes |-> IF w.scaleTween[n] # <<>> THEN Head(w.scaleTween[n])
                                  ELSE w.scale[n]],
       !.scaleTween = [n \in Nodes |-> IF w.scaleTween[n] # <<>> THEN Tail(w.scaleTween[n])
                                       ELSE <<>>],
       \* a tween that has reached its last target is no longer live
       !.active = [n \in Nodes |->
                     [position |-> IF Len(w.posTween[n]) <= 1 THEN 0
                                   ELSE w.active[n].position,
                      scale |-> IF Len(w.scaleTween[n]) <= 1 THEN 0
                                ELSE w.active[n].scale]]]

(***************************************************************************)
(* One animation frame.  The gsap ticker and the render loop both run from *)
(* requestAnimationFrame, so a frame is: the ticker, then the raycaster's  *)
(* callback (its hit list goes to setIntersects), then the hover pass on   *)
(* the hit list of the last render (intersectsRef); the render that        *)
(* follows stores the new list in intersectsRef.                           *)
(***************************************************************************)
Frame ==
    LET t == Ticked(World)
        h == HoverPass(t)
        switched == h.hoveredMeshRef # hoveredMeshRef
    IN  /\ sceneMounted
        /\ remountFrames <= MaxRemountFrames
        /\ remountFrames' = IF remountFrames = 0 THEN 0 ELSE remountFrames + 1
        /\ \E hits \in RaycasterFrame(t) :
              /\ intersects' = hits
              /\ intersectsRef' = hits
        /\ SetScene(h.w)
        /\ hoveredMeshRef' = h.hoveredMeshRef
        /\ unhoverTimeout' = h.unhoverTimeout
        /\ cursor' = h.cursor
        /\ out' = [OutNone EXCEPT !.op = "frame",
                                  !.prev = IF switched THEN hoveredMeshRef ELSE Null,
                                  !.events = h.w.events]
        /\ timerSurvivedRegain' =
              /\ unhoverTimeout.pending
              /\ h.unhoverTimeout.pending
              /\ (timerSurvivedRegain \/ (Enabled /\ Len(intersectsRef) > 0))
        /\ UNCHANGED <<rendererVars, sceneMounted, appVars, pointer, lastEnabledState,
                       requiresMouseMove, movedSinceEnable, probe, pointerRow,
                       grassVars>>

\* The unhover timer fires.
UnhoverTimeout ==
    /\ unhoverTimeout.pending
    /\ LET r == UnhoverCallback
       IN  /\ SetScene(r.w)
           /\ hoveredMeshRef' = r.hoveredMeshRef
           /\ cursor' = r.cursor
           /\ out' = [OutNone EXCEPT !.op = "timeout",
                                     !.prev = IF r.hoveredMeshRef # hoveredMeshRef
                                              THEN hoveredMeshRef ELSE Null,
                                     !.events = r.w.events]
    /\ unhoverTimeout' = NoTimeout
    /\ timerSurvivedRegain' = FALSE
    /\ UNCHANGED <<remountFrames, rendererVars, sceneMounted, appVars, raycasterVars,
                   intersectsRef, movedSinceEnable, probe, pointerRow, grassVars>>

(***************************************************************************)
(* SceneContent unmounts: the effect cleanups run.  The setup effect's     *)
(* cleanup clears its timer, the listeners of both hooks are removed, the  *)
(* frame callbacks are unsubscribed, and the last effect of                *)
(* useObjectInteractions clears the unhover timer if the ref holds one.    *)
(* The meshes belong to the cached models and keep their state.            *)
(***************************************************************************)
UnmountCleanupTimer_keepsTimer == unhoverTimeout

UnmountCleanupTimer ==
    IF unhoverTimeout.pending THEN NoTimeout ELSE unhoverTimeout

Unmount ==
    /\ sceneMounted
    /\ sceneMounted' = FALSE
    /\ setupTimer' = FALSE
    /\ unhoverTimeout' = UnmountCleanupTimer
    /\ timerSurvivedRegain' = FALSE
    /\ out' = [OutNone EXCEPT !.op = "unmount",
                              !.prev = IF unhoverTimeout.pending
                                       THEN unhoverTimeout.prevMesh ELSE Null]
    /\ UNCHANGED <<remountFrames, rendererVars, resourcesReady, isLoaderActive,
                   isDialogOpen, interactiveMeshes, sceneVars, raycasterVars,
                   intersectsRef, hoveredMeshRef, cursor, movedSinceEnable, probe,
                   pointerRow, grassVars>>

(***************************************************************************)
(* The page is mounted again (navigation back to the home page): every     *)
(* component and hook starts from its initial state, while the meshes of   *)
(* the models, which useGLTF caches by URL, are the same objects with the  *)
(* transforms, tweens and userData they were left with.                    *)
(***************************************************************************)
Remount ==
    /\ ~sceneMounted
    /\ remountFrames = 0
    /\ remountFrames' = 1
    /\ sceneMounted' = TRUE
    /\ resourcesReady' = FALSE
    /\ setupTimer' = FALSE
    /\ isLoaderActive' = TRUE
    /\ isDialogOpen' = FALSE
    /\ interactiveMeshes' = <<>>
    /\ pointer' = [x |-> 0, y |-> 0]
    /\ lastEnabledState' = FALSE
    /\ requiresMouseMove' = FALSE
    /\ intersects' = <<>>
    /\ intersectsRef' = <<>>
    /\ hoveredMeshRef' = Null
    /\ unhoverTimeout' = NoTimeout
    /\ gl' = RendererSettings
    /\ contextLost' = FALSE
    /\ movedSinceEnable' = FALSE
    /\ timerSurvivedRegain' = FALSE
    /\ out' = [OutNone EXCEPT !.op = "remount"]
    /\ UNCHANGED <<sceneVars, cursor, probe, pointerRow, grassVars>>

Next ==
    \/ ResourcesReady
    \/ SetupInteractiveObjects
    \/ LoaderDone
    \/ OpenDialog
    \/ CloseDialog
    \/ PointerMove
    \/ Activate
    \/ Frame
    \/ UnhoverTimeout
    \/ Unmount

Spec == Init /\ [][Next]_vars

(***************************************************************************)
(* The classifier on its own, applied to names built from NameParts.       *)
(***************************************************************************)
Classify ==
    /\ probe.parts < MaxNameParts
    /\ \E p \in NameParts :
          LET name == probe.name \o p
          IN  probe' = [name |-> name, parts |-> probe.parts + 1,
                        interactionType |-> classifyObject(name),
                        action |-> getClickActionName(name)]
    /\ UNCHANGED <<remountFrames, rendererVars, sceneMounted, appVars, sceneVars,
                   raycasterVars, hoverVars, movedSinceEnable, out, pointerRow,
                   timerSurvivedRegain, grassVars>>

SpecClassify == Init /\ [][Classify]_vars

(***************************************************************************)
(* GrassField on its own: mount, renders with the same or other props,     *)
(* unmount.  A render commits its effects in declaration order.            *)
(***************************************************************************)
hookVars == <<remountFrames, rendererVars, sceneMounted, appVars, sceneVars, raycasterVars, hoverVars,
              movedSinceEnable, timerSurvivedRegain, out, probe, pointerRow>>

\* Mount: the first render (texture memos), its effects (material effect,
\* mount effect, setup effect without material), then the render caused by
\* setGrassMaterial, whose setup effect builds the field.
GrassMount ==
    /\ ~grassMounted
    /\ Len(heap) + 7 <= MaxGrassObjects
    /\ grassMounted' = TRUE
    /\ LET g1 == MaterialEffect(LoadTextures(FreshGrassState))
           g2 == SetupEffect(SetupEffectCleanup(g1), grassProps)
       IN  SetGrassState(g2)
    /\ grassOut' = [op |-> "mount", ran |-> TRUE]
    /\ UNCHANGED <<grassProps, hookVars>>

\* A later render with props p: the parent rendered again.
GrassRender ==
    /\ grassMounted
    /\ Len(heap) + 4 <= MaxGrassObjects
    /\ \E p \in GrassPropsDomain :
          LET run == SetupDepsChanged(grassProps, grassMaterial, p, grassMaterial)
          IN  /\ grassProps' = p
              /\ SetGrassState(IF run THEN SetupEffect(SetupEffectCleanup(GrassState), p)
                               ELSE GrassState)
              /\ grassOut' = [op |-> "render", ran |-> run]
    /\ UNCHANGED <<grassMounted, hookVars>>

\* Unmount: the cleanups of the material effect, the mount effect and the
\* setup effect, in that order; the component's state is discarded.
GrassUnmount ==
    /\ grassMounted
    /\ grassMounted' = FALSE
    /\ LET g == SetupEffectCleanup(UnmountCleanup(MaterialEffectCleanup(GrassState)))
       IN  SetGrassState([g EXCEPT !.grassMaterial = Null, !.grassInstancedMesh = Null,
                                   !.lastScaleParamsRef = NoParams])
    /\ grassOut' = [op |-> "unmount", ran |-> FALSE]
    /\ UNCHANGED <<grassProps, hookVars>>

GrassNext ==
    \/ GrassMount
    \/ GrassRender
    \/ GrassUnmount

SpecGrass == Init /\ [][GrassNext]_vars

(***************************************************************************)
(* The graphics context is lost and restored while the scene, a hover      *)
(* session and the grass field live: the webglcontextlost and              *)
(* webglcontextrestored events of the canvas.                              *)
(***************************************************************************)
ContextLost ==
    /\ sceneMounted
    /\ ~contextLost
    /\ \E config \in LostConfigs :
          LET r == handleContextLost(config)
          IN  contextLost' = r.contextLost /\ gl' = r.gl
    /\ out' = [OutNone EXCEPT !.op = "contextlost"]
    /\ UNCHANGED <<remountFrames, sceneMounted, appVars, sceneVars, raycasterVars,
                   hoverVars, movedSinceEnable, timerSurvivedRegain, probe, pointerRow,
                   grassVars>>

ContextRestored ==
    /\ sceneMounted
    /\ contextLost
    /\ LET r == handleContextRestored(gl)
       IN  contextLost' = r.contextLost /\ gl' = r.gl
    /\ out' = [OutNone EXCEPT !.op = "contextrestored"]
    /\ UNCHANGED <<remountFrames, sceneMounted, appVars, sceneVars, raycasterVars,
                   hoverVars, movedSinceEnable, timerSurvivedRegain, probe, pointerRow,
                   grassVars>>

ContextNext ==
    \/ ResourcesReady
    \/ SetupInteractiveObjects
    \/ LoaderDone
    \/ PointerMove
    \/ Frame
    \/ UnhoverTimeout
    \/ GrassMount
    \/ ContextLost
    \/ ContextRestored

SpecContext == Init /\ [][ContextNext]_vars

(***************************************************************************)
(* The scene over several mounts of the page: the registry is built again  *)
(* after each mount.                                                       *)
(***************************************************************************)
RebuildNext ==
    \/ ResourcesReady
    \/ SetupInteractiveObjects
    \/ LoaderDone
    \/ PointerMove
    \/ Frame
    \/ UnhoverTimeout
    \/ Unmount
    \/ Remount

SpecRebuild == Init /\ [][RebuildNext]_vars

(***************************************************************************)
(* Vocabulary of the properties.                                           *)
(***************************************************************************)
Range(s) == {s[i] : i \in 1..Len(s)}
Entered == {n \in Nodes : last[n] = "enter"}
GroupOf(n) == IF n = Null THEN {} ELSE Range(getGroupMetas(World, metadata[n]))
NearestHit == IF Len(intersectsRef) > 0 THEN intersectsRef[1] ELSE Null
Starts(n, kind) == Cardinality({i \in 1..Len(out.events) : out.events[i] = <<n, kind>>})
PointerOver == Layout[Cell(pointer)[1]][Cell(pointer)[2]]

(***************************************************************************)
(* C1.  After interaction is enabled again, the hit test of every frame    *)
(* yields no intersections until a pointer-move has been handled since     *)
(* then, also when the last known pointer position lies over an            *)
(* interactive node.                                                       *)
(***************************************************************************)
C1_NoHitsBeforePointerMove ==
    (out.op = "frame" /\ ~movedSinceEnable) => intersects = <<>>

\* A frame ran after re-enabling, the stale pointer (moved there in an earlier
\* enabled period) lies over the registered computer_screen, no hit is reported.
C1_Witness ==
    /\ out.op = "frame"
    /\ Enabled
    /\ ~movedSinceEnable
    /\ PointerOver = <<1>>
    /\ intersects = <<>>

(***************************************************************************)
(* C3.  The rest pose stored with a node is the pose it was classified in, *)
(* whatever transitions were played on it.                                 *)
(***************************************************************************)
C3_RestPoseImmutable ==
    \A n \in Nodes :
        metadata[n] # NoMeta =>
            /\ metadata[n].initialScale = LoadedScale(n)
            /\ metadata[n].initialPosition = LoadedPosition(n)

\* A node was exited, another is entered and has been moved by its animation.
C3_Witness ==
    /\ \E n \in Nodes : last[n] = "exit" /\ metadata[n].initialPosition = LoadedPosition(n)
    /\ \E m \in Nodes : /\ last[m] = "enter"
                        /\ position[m] # LoadedPosition(m)
                        /\ metadata[m].initialPosition = LoadedPosition(m)

(***************************************************************************)
(* C5.  The nodes whose most recent transition is an enter are exactly the *)
(* group of the hovered node, and none when nothing is hovered.            *)
(***************************************************************************)
C5_OneGroupEntered == Entered = GroupOf(hoveredMeshRef)

\* The two-node computer group is entered after another node was exited.
C5_Witness ==
    /\ hoveredMeshRef = 2
    /\ Entered = {1, 2}
    /\ \E n \in Nodes : last[n] = "exit"

(***************************************************************************)
(* C6.  Priority law of the classifier: a name containing a clickable      *)
(* pattern is clickable whatever hoverable patterns it contains, and a     *)
(* name is hoverable only if it contains a hoverable pattern and no        *)
(* clickable one.                                                          *)
(***************************************************************************)
ContainsOneOf(name, patterns) ==
    \E i \in 1..Len(patterns) : Includes(name, patterns[i])

C6_PriorityLaw ==
    /\ ContainsOneOf(probe.name, CLICKABLE_PATTERNS) => probe.interactionType = "clickable"
    /\ probe.interactionType = "hoverable" =>
          /\ ContainsOneOf(probe.name, HOVERABLE_PATTERNS)
          /\ ~ContainsOneOf(probe.name, CLICKABLE_PATTERNS)

\* A name with a clickable and a hoverable pattern was classified clickable.
C6_Witness ==
    /\ Includes(probe.name, "button")
    /\ Includes(probe.name, "phone")
    /\ probe.interactionType = "clickable"

C2_RegainCancelsPendingExit ==
    [][ ( /\ out'.op = "frame"
          /\ Enabled
          /\ unhoverTimeout.pending
          /\ hoveredMeshRef # Null
          /\ unhoverTimeout.prevMesh = hoveredMeshRef
          /\ NearestHit \in GroupOf(hoveredMeshRef) )
        => ( /\ ~unhoverTimeout'.pending
             /\ out'.events = <<>>
             /\ hoveredMeshRef' # Null ) ]_vars

(***************************************************************************)
(* C4.  A frame pass in which the hovered node changes from a node of      *)
(* group A to a node of a different group B starts exactly one exit on     *)
(* every node of A and exactly one enter on every node of B and nothing    *)
(* else, and leaves exactly the nodes of B entered.                        *)
(***************************************************************************)
GroupSwitch ==
    /\ out.op = "frame"
    /\ out.prev # Null
    /\ hoveredMeshRef # Null
    /\ GroupOf(out.prev) # GroupOf(hoveredMeshRef)

C4_GroupSwitch ==
    GroupSwitch =>
        LET A == GroupOf(out.prev)
            B == GroupOf(hoveredMeshRef)
        IN  /\ \A n \in A : Starts(n, "exit") = 1
            /\ \A n \in B : Starts(n, "enter") = 1
            /\ Len(out.events) = Cardinality(A) + Cardinality(B)
            /\ Entered = B

\* The pointer went from the lone pCube to the computer, a group of two.
C4_Witness ==
    /\ GroupSwitch
    /\ out.prev = 7
    /\ GroupOf(hoveredMeshRef) = {1, 2}
    /\ Starts(7, "exit") = 1
    /\ Entered = {1, 2}

\* C4 as stated: in addition, the two groups are never both entered and
\* never both un-animated after the pass.
C4_NeverBothEntered ==
    GroupSwitch =>
        LET A == GroupOf(out.prev)
            B == GroupOf(hoveredMeshRef)
        IN  /\ \A n \in A : Starts(n, "exit") = 1
            /\ \A n \in B : Starts(n, "enter") = 1
            /\ ~(A \subseteq Entered /\ B \subseteq Entered)
            /\ ~(A \cap Entered = {} /\ B \cap Entered = {})

(***************************************************************************)
(* C8.  The hover group of cabinet_drawer_about is that node alone: a pass *)
(* that enters it enters no other node.  Its enter is a position tween to  *)
(* the rest position translated by the slide distance, and its scale is    *)
(* never tweened or changed.                                               *)
(***************************************************************************)
DrawerAbout == CHOOSE n \in Nodes : SceneName[n] = "cabinet_drawer_about"

C8_DrawerAboutAlone ==
    /\ metadata[DrawerAbout] # NoMeta => GroupOf(DrawerAbout) = {DrawerAbout}
    /\ scale[DrawerAbout] = LoadedScale(DrawerAbout)
    /\ scaleTween[DrawerAbout] = <<>>
    /\ (out.op = "frame" /\ Starts(DrawerAbout, "enter") > 0) =>
          /\ \A n \in Nodes : Starts(n, "enter") = IF n = DrawerAbout THEN 1 ELSE 0
          /\ posTween[DrawerAbout] =
                <<VAdd(LoadedPosition(DrawerAbout), <<0, 0, DRAWER_SLIDE_DISTANCE * 10>>)>>

\* The drawer was entered by a pass, coming from its registered sibling drawer.
C8_Witness ==
    /\ out.op = "frame"
    /\ NearestHit = DrawerAbout
    /\ Starts(DrawerAbout, "enter") = 1
    /\ out.prev # Null
    /\ Includes(SceneName[out.prev], "cabinet_drawer_")
    /\ posTween[DrawerAbout] # <<>>

(***************************************************************************)
(* C9.  An activation with no hit, or whose nearest hit is not clickable,  *)
(* invokes no callback, opens no URL and changes nothing of the scene, the *)
(* registry, the modal, the raycaster or the hover state.                  *)
(***************************************************************************)
C9_MissIsNoOp ==
    [][ ( /\ out'.op = "activate"
          /\ \/ NearestHit = Null
             \/ metadata[NearestHit].interactionType # "clickable" )
        => ( /\ out'.called = <<>>
             /\ out'.opened = <<>>
             /\ UNCHANGED <<appVars, sceneVars, raycasterVars, hoverVars>> ) ]_vars

\* An activation while enabled with the hoverable pCube nearest and the
\* clickable computer_base behind it.
C9_Witness ==
    /\ out.op = "activate"
    /\ Enabled
    /\ intersectsRef = <<7, 2>>
    /\ metadata[7].interactionType = "hoverable"
    /\ metadata[2].interactionType = "clickable"
    /\ out.called = <<>>
    /\ out.opened = <<>>

(***************************************************************************)
(* C10.  An activation whose nearest hit is a clickable node named with    *)
(* disk_linkedin or disk_github opens the URL of that name and invokes no  *)
(* entry of clickActions.                                                  *)
(***************************************************************************)
C10_ExternalLinks ==
    [][ (out'.op = "activate" /\ Enabled /\ NearestHit # Null) =>
        LET name == SceneName[NearestHit]
            clickable == metadata[NearestHit].interactionType = "clickable"
        IN  /\ (clickable /\ Includes(name, "disk_linkedin")) =>
                  out'.opened = <<LINKEDIN_URL>> /\ out'.called = <<>>
            /\ (clickable /\ Includes(name, "disk_github")) =>
                  out'.opened = <<GITHUB_URL>> /\ out'.called = <<>> ]_vars

\* The github disk was activated; the action table has an entry for its name.
C10_Witness ==
    /\ out.op = "activate"
    /\ Enabled
    /\ NearestHit # Null
    /\ SceneName[NearestHit] = "disk_github"
    /\ getClickActionName(SceneName[NearestHit]) \in ClickActions
    /\ out.opened = <<GITHUB_URL>>

(***************************************************************************)
(* C11.  A render of the mounted GrassField with unchanged props keeps the *)
(* instanced mesh it had (the same object, and nothing is allocated); a    *)
(* built instanced mesh is replaced by another only in a step that changes *)
(* the props.                                                              *)
(***************************************************************************)
C11_InstanceArrayReused ==
    [][ /\ ( /\ grassMounted /\ grassMounted'
             /\ grassInstancedMesh # Null
             /\ grassProps' = grassProps )
           => (grassInstancedMesh' = grassInstancedMesh /\ heap' = heap)
        /\ ( /\ grassInstancedMesh # Null
             /\ grassInstancedMesh' # Null
             /\ grassInstancedMesh' # grassInstancedMesh )
           => grassProps' # grassProps ]_vars

\* A render with unchanged props, after the field had been rebuilt for other props.
C11_Witness ==
    /\ grassOut = [op |-> "render", ran |-> FALSE]
    /\ grassInstancedMesh # Null
    /\ heap[grassInstancedMesh].kind = "instancedMesh"
    /\ heap[grassInstancedMesh].count = grassProps.grassCount
    /\ disposeLog # <<>>

(***************************************************************************)
(* C12.  In a pass that switches the hovered group, the exit of every node *)
(* of the previous group is started before the enter of any node of the    *)
(* new group.                                                              *)
(***************************************************************************)
ExitStarts == {i \in 1..Len(out.events) : out.events[i][2] = "exit"}
EnterStarts == {i \in 1..Len(out.events) : out.events[i][2] = "enter"}

C12_ExitBeforeEnter ==
    GroupSwitch =>
        /\ ExitStarts # {}
        /\ EnterStarts # {}
        /\ \A i \in ExitStarts : \A j \in EnterStarts : i < j

\* From the pCube to the computer: one exit, then the two enters.
C12_Witness ==
    /\ GroupSwitch
    /\ out.events = <<<<7, "exit">>, <<1, "enter">>, <<2, "enter">>>>

\* C12 as stated: the enters of the new group precede the exits of the
\* previous group.
C12_EnterBeforeExit ==
    GroupSwitch => \A i \in EnterStarts : \A j \in ExitStarts : i < j

(***************************************************************************)
(* C13.  As stated: while a group is hovered and no exit is pending, a     *)
(* frame pass whose nearest hit is a node of that group starts no enter    *)
(* and no exit and leaves the hovered node as it is.                       *)
(***************************************************************************)
C13_SameGroupHitIsNoOp ==
    [][ ( /\ out'.op = "frame"
          /\ Enabled
          /\ hoveredMeshRef # Null
          /\ ~unhoverTimeout.pending
          /\ NearestHit \in GroupOf(hoveredMeshRef) )
        => ( /\ out'.events = <<>>
             /\ hoveredMeshRef' = hoveredMeshRef ) ]_vars

(***************************************************************************)
(* C14.  Pointer-move and activation callbacks (and every other callback   *)
(* but two) leave the hovered node, the pending exit and every node's      *)
(* transform, tweens, colour and last transition as they are.  The two     *)
(* that change them are the frame pass and the unhover timer callback, and *)
(* the timer callback only clears the hovered node and starts exits.  The  *)
(* unmount of the page changes none of them either, but for the pending    *)
(* exit, which it cancels.                                                 *)
(***************************************************************************)
C14_HoverChangesOnlyInPassOrTimer ==
    [][ /\ out'.op \notin {"frame", "timeout"} =>
              UNCHANGED <<hoveredMeshRef, position, scale, posTween, scaleTween,
                          accent, last>>
        /\ out'.op \notin {"frame", "timeout", "unmount"} => UNCHANGED unhoverTimeout
        /\ out'.op = "unmount" => unhoverTimeout' = NoTimeout
        /\ out'.op = "timeout" =>
              /\ hoveredMeshRef' \in {Null, hoveredMeshRef}
              /\ \A i \in 1..Len(out'.events) : out'.events[i][2] = "exit" ]_vars

\* A click invoked its callback while a group was hovered; the group is still entered.
C14_Witness ==
    /\ out.op = "activate"
    /\ out.called # <<>>
    /\ hoveredMeshRef # Null
    /\ Entered = GroupOf(hoveredMeshRef)
    /\ Entered # {}

\* C14 as stated: no step other than the frame pass changes the hovered
\* node or starts an enter or exit.
C14_OnlyFramePass ==
    [][ out'.op # "frame" =>
            (hoveredMeshRef' = hoveredMeshRef /\ out'.events = <<>>) ]_vars

(***************************************************************************)
(* C15.  As stated: an activation acts on the nearest hit of a hit test    *)
(* made at the activation, with the pointer and the registry as they are   *)
(* then.                                                                   *)
(***************************************************************************)
C15_FreshHitTest ==
    [][ (out'.op = "activate" /\ Enabled) =>
            \E fresh \in RaycasterFrame(World) :
                [called |-> out'.called, opened |-> out'.opened] = handleClick(fresh) ]_vars

(***************************************************************************)
(* C16.  When the unhover timer fires with the hit still absent, exactly   *)
(* one exit is started on every node of the hovered group and no enter,    *)
(* after which no node is hovered or entered, no timer is pending and the  *)
(* cursor is the default one.                                              *)
(***************************************************************************)
C16_DeadlinePlaysExit ==
    [][ ( /\ out'.op = "timeout"
          /\ hoveredMeshRef # Null
          /\ NearestHit = Null )
        => ( /\ \A n \in Nodes :
                   Cardinality({i \in 1..Len(out'.events) : out'.events[i] = <<n, "exit">>})
                     = IF n \in GroupOf(hoveredMeshRef) THEN 1 ELSE 0
             /\ Len(out'.events) = Cardinality(GroupOf(hoveredMeshRef))
             /\ hoveredMeshRef' = Null
             /\ ~unhoverTimeout'.pending
             /\ cursor' = "default"
             /\ \A n \in Nodes : last'[n] # "enter" ) ]_vars

\* The timer fired for phone_base: both phone nodes were exited, the session is idle.
C16_Witness ==
    /\ out.op = "timeout"
    /\ out.prev = 3
    /\ out.events = <<<<3, "exit">>, <<4, "exit">>>>
    /\ intersectsRef = <<>>
    /\ hoveredMeshRef = Null
    /\ cursor = "default"
    /\ Entered = {}

(***************************************************************************)
(* C17.  The delay window as stated: from the frame pass that finds the    *)
(* hit of the hovered group gone until the deadline of that loss, no exit  *)
(* is started, the hovered node stays recorded and the cursor stays        *)
(* "pointer" for a clickable node.  A frame pass inside the window changes *)
(* nothing, and a timer that fires with the hit absent and plays the exit  *)
(* is the timer of this loss, not one scheduled before the hit last came   *)
(* back.                                                                   *)
(***************************************************************************)
C17_PreservedUntilDeadline ==
    [][ /\ ( /\ out'.op = "frame"
             /\ Enabled
             /\ hoveredMeshRef # Null
             /\ NearestHit = Null )
          => ( /\ out'.events = <<>>
               /\ hoveredMeshRef' = hoveredMeshRef
               /\ unhoverTimeout'.pending
               /\ metadata[hoveredMeshRef].interactionType = "clickable"
                    => cursor' = "pointer" )
        /\ ( /\ out'.op = "timeout"
             /\ NearestHit = Null
             /\ out'.events # <<>> )
          => ~timerSurvivedRegain ]_vars

(***************************************************************************)
(* C18.  Grouping rule of the code: a computer_ node resolves to every     *)
(* registry node named computer_*, phone_base resolves to every registry   *)
(* node named phone_*, and every other node, phone_device included,        *)
(* resolves to itself alone.  The nodes a frame pass enters are the group  *)
(* of the node it records as hovered, and the nodes the timer exits are    *)
(* the group of the node that was hovered.                                 *)
(***************************************************************************)
RegistryNodesNamed(pattern) ==
    {n \in Range(interactiveMeshes) : Includes(SceneName[n], pattern)}

OneWayGroup(n) ==
    IF Includes(SceneName[n], "computer_") THEN RegistryNodesNamed("computer_")
    ELSE IF Includes(SceneName[n], "phone_base") THEN RegistryNodesNamed("phone_")
    ELSE {n}

PrefixGroup(n) ==
    IF Includes(SceneName[n], "computer_") THEN RegistryNodesNamed("computer_")
    ELSE IF Includes(SceneName[n], "phone_") THEN RegistryNodesNamed("phone_")
    ELSE {n}

StartedOn(kind) == {n \in Nodes : Starts(n, kind) > 0}

C18_OneWayGrouping ==
    /\ (out.op = "frame" /\ EnterStarts # {})
         => (StartedOn("enter") = OneWayGroup(hoveredMeshRef)
             /\ \A n \in Nodes : Starts(n, "enter") <= 1)
    /\ (out.op = "timeout" /\ out.prev # Null)
         => StartedOn("exit") = OneWayGroup(out.prev)

\* phone_device was hit with phone_base in the registry: it is entered alone.
C18_Witness ==
    /\ out.op = "frame"
    /\ hoveredMeshRef = 4
    /\ 3 \in Range(interactiveMeshes)
    /\ out.events = <<<<4, "enter">>>>

\* C18 as stated: every phone_ node resolves to the full phone_ set.
C18_PrefixGrouping ==
    /\ (out.op = "frame" /\ EnterStarts # {})
         => StartedOn("enter") = PrefixGroup(hoveredMeshRef)
    /\ (out.op = "timeout" /\ out.prev # Null)
         => StartedOn("exit") = PrefixGroup(out.prev)

(***************************************************************************)
(* C19.  While interaction is disabled (a dialog is open, the loader is    *)
(* active or the registry is empty) the hit test of a frame yields the     *)
(* empty list, and an activation invokes no action callback and opens no   *)
(* URL, whatever hit list is left over from before.                        *)
(***************************************************************************)
C19_DisabledIsInert ==
    [][ ~Enabled =>
          /\ out'.op = "frame" => (intersects' = <<>> /\ intersectsRef' = <<>>)
          /\ out'.op = "activate" => (out'.called = <<>> /\ out'.opened = <<>>
                                      /\ isDialogOpen' = isDialogOpen) ]_vars

\* A click arrives while a dialog is open and the list of the last frame
\* still holds a clickable mesh: nothing is invoked.
C19_Witness ==
    /\ out.op = "activate"
    /\ isDialogOpen
    /\ NearestHit # Null
    /\ metadata[NearestHit].interactionType = "clickable"
    /\ out.called = <<>>
    /\ out.opened = <<>>

(***************************************************************************)
(* C20.  Animations are never cumulative.  The pose an enter leads to is   *)
(* the rest pose plus the offset or factor of the node's category, the     *)
(* pose an exit leads to is the rest pose, whatever pose the node had when *)
(* the transition started; so a node whose exit has completed is at its    *)
(* rest pose and a node whose enter has completed is at its hover pose.    *)
(***************************************************************************)
HoverPosition(n) ==
    IF Includes(SceneName[n], "cabinet_drawer_")
    THEN VAdd(LoadedPosition(n), <<0, 0, DRAWER_SLIDE_DISTANCE * 10>>)
    ELSE IF Includes(SceneName[n], "pCube")
    THEN VAdd(LoadedPosition(n), <<0, -33, 0>>)
    ELSE VSub(LoadedPosition(n),
              VScalePct(VSub(LocalCenter(n), LoadedPosition(n)), HOVER_SCALE - 100))

HoverScaleOf(n) ==
    IF Includes(SceneName[n], "cabinet_drawer_") \/ Includes(SceneName[n], "pCube")
    THEN LoadedScale(n)
    ELSE VScalePct(LoadedScale(n), HOVER_SCALE)

\* Where the live tweens of a node lead: the last target of a channel, or
\* the current value of a channel without a tween.
FinalPosition(n) ==
    IF posTween[n] # <<>> THEN posTween[n][Len(posTween[n])] ELSE position[n]

FinalScale(n) ==
    IF scaleTween[n] # <<>> THEN scaleTween[n][Len(scaleTween[n])] ELSE scale[n]

C20_NeverCumulative ==
    \A n \in Nodes :
        /\ last[n] = "enter" =>
              (FinalPosition(n) = HoverPosition(n) /\ FinalScale(n) = HoverScaleOf(n))
        /\ last[n] = "exit" =>
              (FinalPosition(n) = LoadedPosition(n) /\ FinalScale(n) = LoadedScale(n))
        /\ last[n] = "none" =>
              (position[n] = LoadedPosition(n) /\ scale[n] = LoadedScale(n))

\* The enter of computer_screen was interrupted at its overshoot pose by an
\* exit, which leads to the rest pose.
C20_Witness ==
    /\ Starts(1, "exit") > 0
    /\ position[1] # LoadedPosition(1)
    /\ position[1] # HoverPosition(1)
    /\ scale[1] = VScalePct(LoadedScale(1), HOVER_OVEREXTEND_SCALE)
    /\ posTween[1] = <<LoadedPosition(1)>>
    /\ scaleTween[1] = <<LoadedScale(1)>>

(***************************************************************************)
(* C21.  When the interaction hook is unmounted a pending unhover timer is *)
(* cancelled: after the unmount no timer is pending, and the timer         *)
(* callback never runs on an unmounted hook.                               *)
(***************************************************************************)
C21_UnmountCancelsTimer ==
    [][ /\ out'.op = "unmount" => ~unhoverTimeout'.pending
        /\ out'.op = "timeout" => sceneMounted
        /\ ~sceneMounted => (hoveredMeshRef' = hoveredMeshRef /\ last' = last) ]_vars

\* The hook was unmounted inside a delay window: the hovered node is still
\* recorded and entered, and the timer is gone.
C21_Witness ==
    /\ out.op = "unmount"
    /\ out.prev # Null
    /\ ~sceneMounted
    /\ hoveredMeshRef # Null
    /\ NearestHit = Null
    /\ last[hoveredMeshRef] = "enter"
    /\ ~unhoverTimeout.pending

(***************************************************************************)
(* C22.  Teardown order as stated: when GrassField unmounts, the instanced *)
(* mesh in use is disposed, and disposed before the grass geometry and the *)
(* grass material it was built from; the grass material is disposed before *)
(* the two textures it holds.                                              *)
(***************************************************************************)
DisposedAt(log, x) ==
    IF \E i \in 1..Len(log) : log[i] = x
    THEN CHOOSE i \in 1..Len(log) : log[i] = x /\ \A j \in 1..(i - 1) : log[j] # x
    ELSE 0

DisposedBefore(log, x, y) ==
    DisposedAt(log, x) > 0 /\ DisposedAt(log, y) > 0 /\ DisposedAt(log, x) < DisposedAt(log, y)

C22_TeardownOrder ==
    [][ (grassOut'.op = "unmount" /\ grassInstancedMesh # Null) =>
            /\ DisposedBefore(disposeLog', grassInstancedMesh, heap[grassInstancedMesh].geometry)
            /\ DisposedBefore(disposeLog', grassInstancedMesh, heap[grassInstancedMesh].material)
            /\ DisposedBefore(disposeLog', materialRef, texturesRef.grassAlpha)
            /\ DisposedBefore(disposeLog', materialRef, texturesRef.noise) ]_vars

(***************************************************************************)
(* C23.  The restoration of a lost graphics context writes the renderer    *)
(* configuration back to the values of the first setup (shadow map on and  *)
(* soft, sRGB output, ACES tone mapping) and leaves the registry, the      *)
(* hover session and the grass instance data as they are; while the        *)
(* context is not lost the configuration is the one of the first setup.    *)
(***************************************************************************)
C23_RestoreReappliesConfig ==
    [][ /\ (contextLost /\ ~contextLost') =>
              /\ gl' = RendererSettings
              /\ ~contextLost'
              /\ UNCHANGED <<remountFrames, interactiveMeshes, metadata, hoverVars,
                             last, grassVars>>
        /\ ~contextLost' => gl' = RendererSettings ]_vars

\* The context came back while phone_base was hovered and the grass field
\* was built: the configuration is the initial one.
C23_Witness ==
    /\ out.op = "contextrestored"
    /\ gl = RendererSettings
    /\ hoveredMeshRef = 3
    /\ Entered = {3, 4}
    /\ grassInstancedMesh # Null
    /\ heap[grassInstancedMesh].kind = "instancedMesh"

(***************************************************************************)
(* C24.  At any time gsap holds at most one live tween on the position of  *)
(* a node and at most one on its scale, and a channel has keyframes left   *)
(* exactly when it has a live tween.                                       *)
(***************************************************************************)
C24_OneTweenPerChannel ==
    \A n \in Nodes :
        /\ activeTweens[n].position <= 1
        /\ activeTweens[n].scale <= 1
        /\ (activeTweens[n].position = 1) <=> (posTween[n] # <<>>)
        /\ (activeTweens[n].scale = 1) <=> (scaleTween[n] # <<>>)

\* phone_device was exited and entered again by one pass (the hover moved
\* to phone_base): the second call found the tweens of the first live.
C24_Witness ==
    /\ out.op = "frame"
    /\ Starts(4, "exit") = 1
    /\ Starts(4, "enter") = 1
    /\ activeTweens[4] = [position |-> 1, scale |-> 1]
    /\ Len(posTween[4]) = 2

(***************************************************************************)
(* C25.  As stated: after any sequence of setup runs the terrain geometry  *)
(* in use is the loaded terrain geometry scaled once by the current        *)
(* (terrainScale, terrainScale * terrainHeightScale, terrainScale), and    *)
(* the grass geometry in use is the loaded LOD00 geometry scaled once by   *)
(* the current grass parameters.                                           *)
(***************************************************************************)
ScaledOnce(xz, height) ==
    GeometryScale(AssetGeometry.scale, xz, (xz * height) \div 10, xz)

C25_ScaledOnce ==
    (grassMounted /\ grassInstancedMesh # Null) =>
        /\ heap[terrainGeometryRef].scale =
              ScaledOnce(grassProps.terrainScale, grassProps.terrainHeightScale)
        /\ heap[islandGeometry].scale =
              ScaledOnce(grassProps.terrainScale, grassProps.terrainHeightScale)
        /\ heap[grassGeometryRef].scale =
              ScaledOnce(grassProps.grassScale, grassProps.grassHeightScale)

(***************************************************************************)
(* C26.  The classifier and the action table agree on every name: the name *)
(* is classified clickable exactly when the action table gives it an       *)
(* action, and that action is one of the declared callbacks.               *)
(***************************************************************************)
C26_ClickableIffAction ==
    /\ (probe.interactionType = "clickable") <=> (probe.action # "null")
    /\ probe.action # "null" => probe.action \in ClickActions

\* "disk" alone is hoverable without an action; "disk_linkedin" is clickable
\* and has one.
C26_Witness ==
    /\ probe.name = "disk_linkedin"
    /\ probe.interactionType = "clickable"
    /\ probe.action = "onDiskLinkedInClick"
    /\ classifyObject("disk") = "hoverable"
    /\ getClickActionName("disk") = "null"

(***************************************************************************)
(* C27.  As stated: a registry rebuild records for every node that already *)
(* had a rest pose the same initialScale and initialPosition again,        *)
(* whatever the node's pose is when the rebuild runs.                      *)
(***************************************************************************)
C27_RebuildKeepsRestPose ==
    [][ \A n \in Nodes :
          (metadata[n] # NoMeta /\ metadata'[n] # NoMeta) =>
              /\ metadata'[n].initialScale = metadata[n].initialScale
              /\ metadata'[n].initialPosition = metadata[n].initialPosition ]_vars

(***************************************************************************)
(* C28.  For every node the enter-starts and exit-starts alternate,        *)
(* beginning with an enter: taken in the order a step makes them, an enter *)
(* is started only on a node whose latest transition is not an enter, and  *)
(* an exit only on a node whose latest transition is an enter.  This holds *)
(* over every interleaving of frames, pointer moves, timer firings,        *)
(* dialogs and activations of a mounted page.                              *)
(***************************************************************************)
RECURSIVE Alternates(_, _)
Alternates(latest, events) ==
    IF events = <<>> THEN TRUE
    ELSE LET m == Head(events)[1]
             kind == Head(events)[2]
         IN  /\ kind = "enter" => latest[m] # "enter"
             /\ kind = "exit" => latest[m] = "enter"
             /\ Alternates([latest EXCEPT ![m] = kind], Tail(events))

C28_StartsAlternate ==
    [][ (out' # out \/ last' # last) => Alternates(last, out'.events) ]_vars

\* A pass that exits a node and enters it again, in this order.
C28_Witness ==
    /\ out.op = "frame"
    /\ \E i, j \in 1..Len(out.events) :
          /\ i < j
          /\ out.events[i][1] = out.events[j][1]
          /\ out.events[i][2] = "exit"
          /\ out.events[j][2] = "enter"
    /\ \A n \in Nodes : last[n] = "enter" <=> n \in OneWayGroup(hoveredMeshRef)

(***************************************************************************)
(* C29.  As stated: when GrassField unmounts, every resource it holds (the *)
(* instanced mesh and the terrain material of the last setup run, the      *)
(* grass material, the two textures, the cloned terrain and grass          *)
(* geometries) has been disposed exactly once.                             *)
(***************************************************************************)
TimesDisposed(log, x) == Cardinality({i \in 1..Len(log) : log[i] = x})

HeldResources ==
    ({grassInstancedMesh, materialRef, texturesRef.grassAlpha, texturesRef.noise,
      grassGeometryRef, terrainGeometryRef}
     \cup (IF setupCleanup.set
           THEN {setupCleanup.instancedMesh, setupCleanup.terrainMaterial} ELSE {}))
    \ {Null}

C29_DisposedExactlyOnce ==
    [][ grassOut'.op = "unmount" =>
            \A x \in HeldResources : TimesDisposed(disposeLog', x) = 1 ]_vars

(***************************************************************************)
(* C30.  The hook holds one timer handle, a pending timer is never         *)
(* replaced by another one, and whenever a timer is pending the hovered    *)
(* node is non-null and is the node the timer captured when it was         *)
(* scheduled, so the identity test of the timer callback succeeds.         *)
(***************************************************************************)
C30_PendingTimerMatchesHovered ==
    /\ [](unhoverTimeout.pending =>
             /\ hoveredMeshRef # Null
             /\ hoveredMeshRef = unhoverTimeout.prevMesh)
    /\ [][ (unhoverTimeout.pending /\ unhoverTimeout'.pending)
               => unhoverTimeout' = unhoverTimeout ]_vars

\* A frame over empty canvas has scheduled the timer for the hovered node.
C30_Witness ==
    /\ out.op = "frame"
    /\ intersectsRef = <<>>
    /\ unhoverTimeout.pending
    /\ hoveredMeshRef # Null
    /\ unhoverTimeout.prevMesh = hoveredMeshRef
    /\ last[hoveredMeshRef] = "enter"

====
